---- MODULE Spec2Model ----
(***************************************************************************)
(* A model of homework.py: the fitness tracker module (InfoMessage,        *)
(* Training and its three subclasses, read_package, main and the script    *)
(* body under `if __name__ == '__main__'`).                                *)
(*                                                                         *)
(* Numbers.  The readings are Python ints; every statistic is a Python     *)
(* float.  A number is modelled as an exact fraction <<n, d>> in lowest    *)
(* terms (d > 0): the decimal literals of the source (0.65, 1.79, ...)     *)
(* are the fractions they denote.  The rounding error of binary floating   *)
(* point is far below the three decimals the report prints, except when a  *)
(* value lies exactly half way between two printed values: there the       *)
(* formatting operator allows both neighbours.                             *)
(*                                                                         *)
(* Text.  A Python str is the sequence of its Unicode code points.         *)
(***************************************************************************)
EXTENDS Integers, Sequences, FiniteSets, TLC

VARIABLES
    name,       \* the module's __name__: "__main__" (run as a script) or "homework" (imported)
    pc,         \* position of the script body: "loop", "main", "print", "exit", "crashed"; "idle" when imported
    packages,   \* the list `packages` of the script body
    idx,        \* 1-based position of the for loop in packages
    training,   \* the Training instance last returned by read_package, or NoTraining
    info,       \* the InfoMessage show_training_info returned for the current instance, or NoInfo
    ret,        \* outcome of the last call: [op, args, ok, val, exc]
    calls,      \* how often each Training method was evaluated during the last call
    first,      \* history: per method, the outcome of its first call on the current
                \* instance, and whether it has been called again since
    out         \* the lines printed to standard output so far

vars == <<name, pc, packages, idx, training, info, ret, calls, first, out>>

---------------------------------------------------------------------------
(* Bounds of the model *)

\* durations are drawn from 0 .. MaxDuration (hours)
MaxDuration == 2
\* the script's package list has at most MaxPackages entries
MaxPackages == 3

---------------------------------------------------------------------------
(* Arithmetic on exact fractions *)

RECURSIVE GCD(_, _)
GCD(a, b) == IF b = 0 THEN a ELSE GCD(b, a % b)

Abs(n) == IF n < 0 THEN -n ELSE n

\* an int as a number
R(n) == <<n, 1>>

\* the fraction n/d (d > 0) in lowest terms
Frac(n, d) == LET g == GCD(Abs(n), d) IN IF g = 0 THEN <<0, 1>> ELSE <<n \div g, d \div g>>

\* x * y
Mul(x, y) ==
    LET g1 == GCD(Abs(x[1]), y[2])
        g2 == GCD(Abs(y[1]), x[2])
        a  == IF g1 = 0 THEN 0 ELSE x[1] \div g1
        d  == IF g1 = 0 THEN 1 ELSE y[2] \div g1
        c  == IF g2 = 0 THEN 0 ELSE y[1] \div g2
        b  == IF g2 = 0 THEN 1 ELSE x[2] \div g2
    IN  Frac(a * c, b * d)

\* x + y
Add(x, y) ==
    LET g == GCD(x[2], y[2])
    IN  Frac(x[1] * (y[2] \div g) + y[1] * (x[2] \div g), x[2] * (y[2] \div g))

IsZero(x) == x[1] = 0

\* x / y for y # 0 (the callers raise ZeroDivisionError for y = 0)
Quot(x, y) ==
    IF y[1] < 0 THEN Mul(x, <<-y[2], -y[1]>>) ELSE Mul(x, <<y[2], y[1]>>)

---------------------------------------------------------------------------
(* Outcomes of calls *)

NoVal == <<>>
NoExc == "none"

MethodNames == {"get_distance", "get_mean_speed", "get_spent_calories", "duration_in_min"}

NoCalls == [m \in MethodNames |-> 0]
Once(m) == [n \in MethodNames |-> IF n = m THEN 1 ELSE 0]
Plus(c1, c2) == [m \in MethodNames |-> c1[m] + c2[m]]

\* a call that returned v, having evaluated the methods counted in c
Return(v, c) == [ok |-> TRUE, val |-> v, exc |-> NoExc, calls |-> c]
\* a call that raised e
Raise(e, c) == [ok |-> FALSE, val |-> NoVal, exc |-> e, calls |-> c]

\* x / y with a zero divisor answered by 0 instead of an exception
Div_guarded(x, y) == IF IsZero(y) THEN Return(<<0, 1>>, NoCalls)
                     ELSE Return(Quot(x, y), NoCalls)

\* x / y as Python evaluates it
Div(x, y) == IF IsZero(y) THEN Raise("ZeroDivisionError", NoCalls)
             ELSE Return(Quot(x, y), NoCalls)

---------------------------------------------------------------------------
(* class Training and its subclasses *)

M_IN_KM == 1000
H_IN_MIN == 60

\* LEN_STEP without the override of class Swimming
LEN_STEP_base(cls) == <<13, 20>>

\* the class attribute LEN_STEP as an instance of class cls sees it
LEN_STEP(cls) == IF cls = "Swimming" THEN <<69, 50>> ELSE <<13, 20>>

Running_CALORIES_MEAN_SPEED_MULTIPLIER == 18
Running_CALORIES_MEAN_SPEED_SHIFT == <<179, 100>>

BIG_CALORIES_MEAN_WEIGHT_MULTIPLIER == <<7, 200>>
SMALL_CALORIES_MEAN_WEIGHT_MULTIPLIER == <<29, 1000>>
KM_PER_H_IN_METR_PER_SEC == <<139, 500>>
SM_IN_M == 100

CALORIES_WEIGHT_RATIO_SPENT_MULTIPLIER == 2
Swimming_CALORIES_MEAN_SPEED_SHIFT == <<11, 10>>

NoTraining == [cls |-> "None"]

\* Training.__init__
Training_init(cls, action, duration, weight) ==
    [cls |-> cls, action |-> action, duration |-> duration, weight |-> weight]

\* SportsWalking.__init__
SportsWalking_init(action, duration, weight, height) ==
    [cls |-> "SportsWalking", action |-> action, duration |-> duration,
     weight |-> weight, height |-> height]

\* Swimming.__init__
Swimming_init(action, duration, weight, length_pool, count_pool) ==
    [cls |-> "Swimming", action |-> action, duration |-> duration,
     weight |-> weight, length_pool |-> length_pool, count_pool |-> count_pool]

\* Training.get_distance (inherited by all three subclasses)
get_distance(t) ==
    Return(Quot(Mul(R(t.action), LEN_STEP(t.cls)), R(M_IN_KM)), Once("get_distance"))

\* the outcome q with the evaluation counts c
Counted(q, c) == [q EXCEPT !.calls = c]

\* Training.get_mean_speed, given the outcome d of its call self.get_distance()
Training_mean_speed_of(t, d) ==
    Counted(Div(d.val, R(t.duration)), Plus(Once("get_mean_speed"), d.calls))

\* Training.get_mean_speed
Training_get_mean_speed(t) == Training_mean_speed_of(t, get_distance(t))

\* Swimming without its override of get_mean_speed: the inherited method
Swimming_get_mean_speed_inherited(t) == Training_mean_speed_of(t, get_distance(t))

\* Swimming.get_mean_speed
Swimming_get_mean_speed(t) ==
    Counted(Div(Quot(Mul(R(t.length_pool), R(t.count_pool)), R(M_IN_KM)),
                R(t.duration)),
            Once("get_mean_speed"))

\* self.get_mean_speed() as the instance's class resolves it
get_mean_speed(t) ==
    IF t.cls = "Swimming" THEN Swimming_get_mean_speed(t) ELSE Training_get_mean_speed(t)

\* Training.duration_in_min (inherited by all three subclasses)
duration_in_min(t) ==
    Return(Mul(R(t.duration), R(H_IN_MIN)), Once("duration_in_min"))

\* Training.get_spent_calories
Training_get_spent_calories(t) ==
    Return(Mul(R(t.duration), R(t.weight)), Once("get_spent_calories"))

\* the evaluations of a get_spent_calories that called self.get_mean_speed(),
\* which ended as ms
CaloriesCalls(ms) == Plus(Once("get_spent_calories"), ms.calls)

\* Running.get_spent_calories with the shift subtracted: 18 * speed - 1.79
Running_calories_shift_subtracted(t, ms) ==
    IF ~ms.ok THEN Raise(ms.exc, CaloriesCalls(ms))
    ELSE Return(Mul(Quot(Mul(Add(Mul(R(Running_CALORIES_MEAN_SPEED_MULTIPLIER), ms.val),
                                 <<-179, 100>>),
                             R(t.weight)),
                         R(M_IN_KM)),
                    duration_in_min(t).val),
                Plus(CaloriesCalls(ms), duration_in_min(t).calls))

\* Running.get_spent_calories, given the outcome ms of its call
\* self.get_mean_speed(); self.duration_in_min() is called last
Running_calories_of(t, ms) ==
    IF ~ms.ok THEN Raise(ms.exc, CaloriesCalls(ms))
    ELSE Return(Mul(Quot(Mul(Add(Mul(R(Running_CALORIES_MEAN_SPEED_MULTIPLIER), ms.val),
                                 Running_CALORIES_MEAN_SPEED_SHIFT),
                             R(t.weight)),
                         R(M_IN_KM)),
                    duration_in_min(t).val),
                Plus(CaloriesCalls(ms), duration_in_min(t).calls))

\* Running.get_spent_calories
Running_get_spent_calories(t) == Running_calories_of(t, get_mean_speed(t))

\* SportsWalking.get_spent_calories from the outcome q of the division
\* mean_sport_speed ** 2 / (self.height / self.SM_IN_M)
SportsWalking_spent_calories(t, ms, q) ==
    IF ~q.ok THEN Raise(q.exc, CaloriesCalls(ms))
    ELSE Return(Mul(Add(Mul(BIG_CALORIES_MEAN_WEIGHT_MULTIPLIER, R(t.weight)),
                        Mul(Mul(q.val, SMALL_CALORIES_MEAN_WEIGHT_MULTIPLIER),
                            R(t.weight))),
                    duration_in_min(t).val),
                Plus(CaloriesCalls(ms), duration_in_min(t).calls))

\* mean_sport_speed = self.get_mean_speed() * self.KM_PER_H_IN_METR_PER_SEC
mean_sport_speed(ms) == Mul(ms.val, KM_PER_H_IN_METR_PER_SEC)

\* SportsWalking.get_spent_calories, given the outcome ms of its call
\* self.get_mean_speed()
SportsWalking_calories_of(t, ms) ==
    IF ~ms.ok THEN Raise(ms.exc, CaloriesCalls(ms))
    ELSE SportsWalking_spent_calories(t, ms,
             Div(Mul(mean_sport_speed(ms), mean_sport_speed(ms)),
                 Quot(R(t.height), R(SM_IN_M))))

\* SportsWalking.get_spent_calories
SportsWalking_get_spent_calories(t) == SportsWalking_calories_of(t, get_mean_speed(t))

\* Swimming.get_spent_calories with the duration taken in minutes, as the
\* other two variants take it
Swimming_calories_minutes(t, ms) ==
    IF ~ms.ok THEN Raise(ms.exc, CaloriesCalls(ms))
    ELSE Return(Mul(Mul(Mul(Add(ms.val, Swimming_CALORIES_MEAN_SPEED_SHIFT),
                            R(CALORIES_WEIGHT_RATIO_SPENT_MULTIPLIER)),
                        R(t.weight)),
                    duration_in_min(t).val),
                Plus(CaloriesCalls(ms), duration_in_min(t).calls))

\* Swimming.get_spent_calories, given the outcome ms of its call
\* self.get_mean_speed()
Swimming_calories_of(t, ms) ==
    IF ~ms.ok THEN Raise(ms.exc, CaloriesCalls(ms))
    ELSE Return(Mul(Mul(Mul(Add(ms.val, Swimming_CALORIES_MEAN_SPEED_SHIFT),
                            R(CALORIES_WEIGHT_RATIO_SPENT_MULTIPLIER)),
                        R(t.weight)),
                    R(t.duration)),
                CaloriesCalls(ms))

\* Swimming.get_spent_calories
Swimming_get_spent_calories(t) == Swimming_calories_of(t, get_mean_speed(t))

\* self.get_spent_calories() as the instance's class resolves it
get_spent_calories(t) ==
    CASE t.cls = "Running"       -> Running_get_spent_calories(t)
      [] t.cls = "SportsWalking" -> SportsWalking_get_spent_calories(t)
      [] t.cls = "Swimming"      -> Swimming_get_spent_calories(t)
      [] OTHER                   -> Training_get_spent_calories(t)

\* InfoMessage.__init__
InfoMessage_init(training_type, duration, distance, speed, calories) ==
    [training_type |-> training_type, duration |-> duration,
     distance |-> distance, speed |-> speed, calories |-> calories]

\* Training.show_training_info from the outcomes of its three calls: the
\* InfoMessage is built only when all of them returned
show_info_of(t, d, ms, cal) ==
    IF ~cal.ok THEN Raise(cal.exc, Plus(Plus(d.calls, ms.calls), cal.calls))
    ELSE Return(InfoMessage_init(t.cls, t.duration, d.val, ms.val, cal.val),
                Plus(Plus(d.calls, ms.calls), cal.calls))

\* Training.show_training_info after self.get_distance() and
\* self.get_mean_speed(): the arguments are evaluated left to right, and
\* self.get_spent_calories() is not reached when get_mean_speed raised
show_info_after_speed(t, d, ms) ==
    IF ~ms.ok THEN Raise(ms.exc, Plus(d.calls, ms.calls))
    ELSE show_info_of(t, d, ms, get_spent_calories(t))

\* show_training_info with get_mean_speed counted as one evaluation, as if it
\* did not call get_distance itself
show_training_info_flat(t) ==
    show_info_after_speed(t, get_distance(t),
                          Counted(get_mean_speed(t), Once("get_mean_speed")))

\* Training.show_training_info
show_training_info(t) == show_info_after_speed(t, get_distance(t), get_mean_speed(t))

---------------------------------------------------------------------------
(* class InfoMessage *)

NoInfo == [training_type |-> "None"]

\* the code points of a class name (self.__class__.__name__ is a str)
ClassName(cls) ==
    CASE cls = "Running"       -> <<82, 117, 110, 110, 105, 110, 103>>
      [] cls = "SportsWalking" -> <<83, 112, 111, 114, 116, 115, 87, 97, 108, 107, 105, 110, 103>>
      [] cls = "Swimming"      -> <<83, 119, 105, 109, 109, 105, 110, 103>>
      [] OTHER                 -> <<84, 114, 97, 105, 110, 105, 110, 103>>

\* the decimal digits of a natural number
RECURSIVE Digits(_)
Digits(n) == IF n < 10 THEN <<48 + n>> ELSE Digits(n \div 10) \o <<48 + (n % 10)>>

\* format(x, '.3f'): the values x may print as, in thousandths.  The three
\* decimals come from long division; the remainder decides the rounding, and a
\* remainder of exactly one half allows both neighbours (see the head comment).
Thousandths(x) ==
    LET n  == Abs(x[1])
        d  == x[2]
        ip == n \div d
        r0 == n % d
        d1 == (r0 * 10) \div d
        r1 == (r0 * 10) % d
        d2 == (r1 * 10) \div d
        r2 == (r1 * 10) % d
        d3 == (r2 * 10) \div d
        r3 == (r2 * 10) % d
        t  == ip * 1000 + d1 * 100 + d2 * 10 + d3
    IN  IF 2 * r3 > d THEN {t + 1}
        ELSE IF 2 * r3 < d THEN {t}
        ELSE {t, t + 1}

\* the text of a value of th thousandths, with the sign of x
Fixed(x, th) ==
    (IF x[1] < 0 THEN <<45>> ELSE <<>>)
    \o Digits(th \div 1000) \o <<46>>
    \o <<48 + ((th \div 100) % 10), 48 + ((th \div 10) % 10), 48 + (th % 10)>>

\* f'{x:.3f}'
Fmt3(x) == {Fixed(x, th) : th \in Thousandths(x)}

\* get_message with the speed printed as the distance and the distance as the speed
get_message_swapped(i) ==
    {  <<1058, 1080, 1087, 32, 1090, 1088, 1077, 1085, 1080, 1088, 1086, 1074,
         1082, 1080, 58, 32>> \o ClassName(i.training_type) \o <<59>>
       \o <<32, 1044, 1083, 1080, 1090, 1077, 1083, 1100, 1085, 1086, 1089, 1090,
            1100, 58, 32>> \o du \o <<32, 1095, 46, 59>>
       \o <<32, 1044, 1080, 1089, 1090, 1072, 1085, 1094, 1080, 1103, 58, 32>>
       \o sp \o <<32, 1082, 1084, 59>>
       \o <<32, 1057, 1088, 46, 32, 1089, 1082, 1086, 1088, 1086, 1089, 1090,
            1100, 58, 32>> \o di \o <<32, 1082, 1084, 47, 1095, 59>>
       \o <<32, 1055, 1086, 1090, 1088, 1072, 1095, 1077, 1085, 1086, 32, 1082,
            1082, 1072, 1083, 58, 32>> \o ca \o <<46>>
       : du \in Fmt3(R(i.duration)), di \in Fmt3(i.distance),
         sp \in Fmt3(i.speed), ca \in Fmt3(i.calories)  }

\* InfoMessage.get_message: the texts the f-string may evaluate to
get_message(i) ==
    {  <<1058, 1080, 1087, 32, 1090, 1088, 1077, 1085, 1080, 1088, 1086, 1074,
         1082, 1080, 58, 32>> \o ClassName(i.training_type) \o <<59>>
       \o <<32, 1044, 1083, 1080, 1090, 1077, 1083, 1100, 1085, 1086, 1089, 1090,
            1100, 58, 32>> \o du \o <<32, 1095, 46, 59>>
       \o <<32, 1044, 1080, 1089, 1090, 1072, 1085, 1094, 1080, 1103, 58, 32>>
       \o di \o <<32, 1082, 1084, 59>>
       \o <<32, 1057, 1088, 46, 32, 1089, 1082, 1086, 1088, 1086, 1089, 1090,
            1100, 58, 32>> \o sp \o <<32, 1082, 1084, 47, 1095, 59>>
       \o <<32, 1055, 1086, 1090, 1088, 1072, 1095, 1077, 1085, 1086, 32, 1082,
            1082, 1072, 1083, 58, 32>> \o ca \o <<46>>
       : du \in Fmt3(R(i.duration)), di \in Fmt3(i.distance),
         sp \in Fmt3(i.speed), ca \in Fmt3(i.calories)  }

---------------------------------------------------------------------------
(* read_package *)

\* the keys of the dict `commands`
commands == {"SWM", "RUN", "WLK"}

\* commands[workout_name](*statistics): the constructor call with the readings
\* bound by position; a list of the wrong length is a TypeError
Construct(workout_name, statistics) ==
    LET s == statistics
    IN  CASE workout_name = "SWM" ->
               IF Len(s) = 5
               THEN Return(Swimming_init(s[1], s[2], s[3], s[4], s[5]), NoCalls)
               ELSE Raise("TypeError", NoCalls)
          [] workout_name = "RUN" ->
               IF Len(s) = 3
               THEN Return(Training_init("Running", s[1], s[2], s[3]), NoCalls)
               ELSE Raise("TypeError", NoCalls)
          [] workout_name = "WLK" ->
               IF Len(s) = 4
               THEN Return(SportsWalking_init(s[1], s[2], s[3], s[4]), NoCalls)
               ELSE Raise("TypeError", NoCalls)

\* read_package with a default: an unknown code is read as a Running
read_package_default(workout_name, statistics) ==
    IF workout_name \notin commands
    THEN Construct("RUN", statistics)
    ELSE Construct(workout_name, statistics)

read_package(workout_name, statistics) ==
    IF workout_name \notin commands
    THEN Raise("ValueError", NoCalls)
    ELSE Construct(workout_name, statistics)

---------------------------------------------------------------------------
(* Inputs *)

\* workout codes a caller may pass: the three known ones and two unknown ones
Codes == {"SWM", "RUN", "WLK", "BIKE", "run"}

Durations == 0 .. MaxDuration

\* reading lists a caller may pass, by length.  The values are sensor
\* readings of the size of the script's own.  The walking formula squares a
\* speed and divides by a height: its exact fractions stay within TLC's
\* integers only for few readings, so the four-reading lists take their step
\* counts and durations from the small sets WalkActions and WalkDurations.
WalkActions == {0, 20000}
WalkDurations == {0, 1, 2}
Stats3 == {<<a, d, w>> : a \in {0, 10, 15000}, d \in Durations, w \in {75, 80}}
Stats4 == {<<a, d, w, h>> : a \in WalkActions, d \in WalkDurations, w \in {75, 80},
                            h \in {0, 180}}
Stats5 == {<<a, d, w, l, c>> : a \in {0, 720}, d \in Durations, w \in {80},
                               l \in {25, 50}, c \in {0, 40}}
StatLists == Stats3 \union Stats4 \union Stats5

\* the entries the script's list `packages` is built from: the three entries
\* of the source (the walking one with 10000 steps for 9000, see above) and
\* one entry for each way a package can fail
ScriptPackages ==
    { <<"SWM", <<720, 1, 80, 25, 40>>>>,
      <<"RUN", <<15000, 1, 75>>>>,
      <<"WLK", <<10000, 1, 75, 180>>>>,
      <<"BIKE", <<15000, 1, 75>>>>,
      <<"RUN", <<15000, 0, 75>>>>,
      <<"SWM", <<720, 0, 80, 25, 40>>>>,
      <<"WLK", <<10000, 1, 75, 0>>>>,
      <<"WLK", <<10000, 1, 75>>>> }

RECURSIVE SeqsUpTo(_, _)
SeqsUpTo(S, n) ==
    IF n = 0 THEN {<<>>}
    ELSE LET shorter == SeqsUpTo(S, n - 1)
         IN  shorter \union {Append(q, e) : q \in shorter, e \in S}

---------------------------------------------------------------------------
(* State *)

CallNames == MethodNames \union {"show_training_info"}

NeverCalled == [seen |-> FALSE, again |-> FALSE]
FirstNone == [m \in CallNames |-> NeverCalled]

\* the outcome of a call, without its evaluation counts
Outcome(r) == [ok |-> r.ok, val |-> r.val, exc |-> r.exc]

\* the bookkeeping of a call op(args) that ended as r: ret holds the outcome,
\* calls the evaluations it made
Called(op, args, r) ==
    /\ ret' = [op |-> op, args |-> args, ok |-> r.ok, val |-> r.val, exc |-> r.exc]
    /\ calls' = r.calls

\* the history of first outcomes after a call of method op that ended as r
Remember(op, r) ==
    first' = IF first[op].seen
             THEN [first EXCEPT ![op].again = TRUE]
             ELSE [first EXCEPT ![op] = [seen |-> TRUE, again |-> FALSE,
                                         outcome |-> Outcome(r)]]

Init ==
    /\ name \in {"__main__", "homework"}
    /\ IF name = "__main__"
       THEN /\ pc = "loop"
            /\ packages \in SeqsUpTo(ScriptPackages, MaxPackages)
            /\ idx = 1
       ELSE /\ pc = "idle"
            /\ packages = <<>>
            /\ idx = 0
    /\ training = NoTraining
    /\ info = NoInfo
    /\ ret = [op |-> "none", args |-> <<>>, ok |-> TRUE, val |-> NoVal, exc |-> NoExc]
    /\ calls = NoCalls
    /\ first = FirstNone
    /\ out = <<>>

---------------------------------------------------------------------------
(* The module imported: a caller binds one instance with read_package and   *)
(* calls its methods in any order, any number of times                      *)

CallReadPackage ==
    /\ pc = "idle"
    /\ training = NoTraining
    /\ \E c \in Codes, s \in StatLists :
         LET r == read_package(c, s)
         IN  /\ Called("read_package", <<c, s>>, r)
             /\ training' = IF r.ok THEN r.val ELSE training
    /\ first' = FirstNone
    /\ info' = NoInfo
    /\ UNCHANGED <<name, pc, packages, idx, out>>

\* get_distance as a method that consumes the step count it reports
CallGetDistance_consuming ==
    /\ pc = "idle"
    /\ training # NoTraining
    /\ LET r == get_distance(training)
       IN  Called("get_distance", <<>>, r) /\ Remember("get_distance", r)
    /\ training' = [training EXCEPT !.action = 0]
    /\ UNCHANGED <<name, pc, packages, idx, info, out>>

CallGetDistance ==
    /\ pc = "idle"
    /\ training # NoTraining
    /\ LET r == get_distance(training)
       IN  Called("get_distance", <<>>, r) /\ Remember("get_distance", r)
    /\ UNCHANGED <<name, pc, packages, idx, training, info, out>>

CallGetMeanSpeed ==
    /\ pc = "idle"
    /\ training # NoTraining
    /\ LET r == get_mean_speed(training)
       IN  Called("get_mean_speed", <<>>, r) /\ Remember("get_mean_speed", r)
    /\ UNCHANGED <<name, pc, packages, idx, training, info, out>>

CallGetSpentCalories ==
    /\ pc = "idle"
    /\ training # NoTraining
    /\ LET r == get_spent_calories(training)
       IN  Called("get_spent_calories", <<>>, r) /\ Remember("get_spent_calories", r)
    /\ UNCHANGED <<name, pc, packages, idx, training, info, out>>

CallDurationInMin ==
    /\ pc = "idle"
    /\ training # NoTraining
    /\ LET r == duration_in_min(training)
       IN  Called("duration_in_min", <<>>, r) /\ Remember("duration_in_min", r)
    /\ UNCHANGED <<name, pc, packages, idx, training, info, out>>

CallShowTrainingInfo ==
    /\ pc = "idle"
    /\ training # NoTraining
    /\ LET r == show_training_info(training)
       IN  /\ Called("show_training_info", <<>>, r)
           /\ Remember("show_training_info", r)
           /\ info' = IF r.ok THEN r.val ELSE info
    /\ UNCHANGED <<name, pc, packages, idx, training, out>>

CallGetMessage ==
    /\ pc = "idle"
    /\ info # NoInfo
    /\ \E m \in get_message(info) :
         Called("get_message", <<>>, Return(m, NoCalls))
    /\ UNCHANGED <<name, pc, packages, idx, training, info, first, out>>

---------------------------------------------------------------------------
(* The module run as a script: the body under `if __name__ == '__main__'`   *)

\* for workout_type, data in packages: training = read_package(workout_type, data)
LoopReadPackage ==
    /\ pc = "loop"
    /\ idx <= Len(packages)
    /\ LET r == read_package(packages[idx][1], packages[idx][2])
       IN  /\ Called("read_package", packages[idx], r)
           /\ training' = IF r.ok THEN r.val ELSE training
           /\ info' = IF r.ok THEN NoInfo ELSE info
           /\ first' = IF r.ok THEN FirstNone ELSE first
           /\ pc' = IF r.ok THEN "main" ELSE "crashed"
    /\ UNCHANGED <<name, packages, idx, out>>

\* the for loop is exhausted
LoopExit ==
    /\ pc = "loop"
    /\ idx > Len(packages)
    /\ pc' = "exit"
    /\ UNCHANGED <<name, packages, idx, training, info, ret, calls, first, out>>

\* main: info = session.show_training_info()
MainShow ==
    /\ pc = "main"
    /\ LET r == show_training_info(training)
       IN  /\ Called("show_training_info", <<>>, r)
           /\ Remember("show_training_info", r)
           /\ info' = IF r.ok THEN r.val ELSE info
           /\ pc' = IF r.ok THEN "print" ELSE "crashed"
    /\ UNCHANGED <<name, packages, idx, training, out>>

\* main printing above the earlier lines instead of below them
MainPrint_on_top ==
    /\ pc = "print"
    /\ \E m \in get_message(info) :
         /\ Called("get_message", <<>>, Return(m, NoCalls))
         /\ out' = <<m>> \o out
    /\ idx' = idx + 1
    /\ pc' = "loop"
    /\ UNCHANGED <<name, packages, training, info, first>>

\* main: return print(info.get_message()); main returns and the loop advances
MainPrint ==
    /\ pc = "print"
    /\ \E m \in get_message(info) :
         /\ Called("get_message", <<>>, Return(m, NoCalls))
         /\ out' = Append(out, m)
    /\ idx' = idx + 1
    /\ pc' = "loop"
    /\ UNCHANGED <<name, packages, training, info, first>>

Next ==
    \/ CallReadPackage
    \/ CallGetDistance
    \/ CallGetMeanSpeed
    \/ CallGetSpentCalories
    \/ CallDurationInMin
    \/ CallShowTrainingInfo
    \/ CallGetMessage
    \/ LoopReadPackage
    \/ LoopExit
    \/ MainShow
    \/ MainPrint

Spec == Init /\ [][Next]_vars

---------------------------------------------------------------------------
(* Properties *)

\* the number of readings the constructor of a known code takes
Arity(c) == CASE c = "SWM" -> 5 [] c = "RUN" -> 3 [] c = "WLK" -> 4

\* the class a known code stands for
ClassOf(c) == CASE c = "SWM" -> "Swimming" [] c = "RUN" -> "Running"
                [] c = "WLK" -> "SportsWalking"

KnownCodes == {"SWM", "RUN", "WLK"}

\* the last call was read_package(c, s) with a known code and a reading list
\* of that code's arity
ReadKnown ==
    /\ ret.op = "read_package"
    /\ ret.args[1] \in KnownCodes
    /\ Len(ret.args[2]) = Arity(ret.args[1])

\* the last call was read_package with an unknown code
ReadUnknown == ret.op = "read_package" /\ ret.args[1] \notin KnownCodes

\* a known code with readings of its arity yields an instance of its class
ReadKnownReturns == ReadKnown => ret.ok /\ ret.val.cls = ClassOf(ret.args[1])
                                 /\ training = ret.val

\* C1 (as stated): read_package returns a Swimming for "SWM", a Running for
\* "RUN", a SportsWalking for "WLK" (readings of matching arity); for every
\* other code it constructs no instance and raises UnknownWorkoutType.
C1_Original ==
    /\ ReadKnownReturns
    /\ ReadUnknown => ~ret.ok /\ ret.val = NoVal /\ ret.exc = "UnknownWorkoutType"

\* C1 (amended): as stated, except that the error raised for an unknown code
\* is Python's built-in ValueError; no instance is constructed and no variant
\* is chosen by default.
C1_ReadPackage ==
    /\ ReadKnownReturns
    /\ ReadUnknown => ~ret.ok /\ ret.val = NoVal /\ ret.exc = "ValueError"

\* C1 witness: read_package was called with the unknown code "BIKE" and a
\* reading list that would fit Running, and it raised
C1_Witness ==
    /\ ReadUnknown
    /\ ret.args = <<"BIKE", <<15000, 1, 75>>>>
    /\ ~ret.ok
    /\ training = NoTraining

\* the table value of distance: action * LEN_STEP / 1000 with LEN_STEP 0.65
\* for running and walking, 1.38 for swimming
TableDistance(t) ==
    Quot(Mul(R(t.action), IF t.cls = "Swimming" THEN <<138, 100>> ELSE <<65, 100>>),
         R(1000))

\* the instance t with other readings than its step count
OtherReadings(t) ==
    CASE t.cls = "Running" ->
           {[t EXCEPT !.duration = d, !.weight = w] : d \in 0 .. 3, w \in {60, 75}}
      [] t.cls = "SportsWalking" ->
           {[t EXCEPT !.duration = d, !.weight = w, !.height = h] :
              d \in 0 .. 3, w \in {60, 75}, h \in {0, 170}}
      [] t.cls = "Swimming" ->
           {[t EXCEPT !.duration = d, !.weight = w, !.length_pool = l, !.count_pool = c] :
              d \in 0 .. 3, w \in {60, 75}, l \in {0, 33}, c \in {1, 40}}

\* C5: get_distance returns action * LEN_STEP / 1000, LEN_STEP being 0.65 for
\* Running and SportsWalking and 1.38 for Swimming, whatever the duration,
\* weight, height, pool length and lap count are.
C5_Distance ==
    ret.op = "get_distance" =>
        /\ ret.ok
        /\ ret.val = TableDistance(training)
        /\ \A u \in OtherReadings(training) : get_distance(u).val = ret.val

\* C5 witness: get_distance was called on a Swimming instance of 720 strokes
\* and returned 0.9936 (= 621/625), not the 0.468 of the base step length
C5_Witness ==
    /\ ret.op = "get_distance"
    /\ training.cls = "Swimming"
    /\ training.action = 720
    /\ ret.val = <<621, 625>>

\* the decimal number n / 10^k
Dec(n, k) == Frac(n, 10 ^ k)

\* the table value of mean speed: distance / duration for running and
\* walking, pool length * lap count / 1000 / duration for swimming
TableMeanSpeed(t) ==
    IF t.cls = "Swimming"
    THEN Quot(Quot(Mul(R(t.length_pool), R(t.count_pool)), R(1000)), R(t.duration))
    ELSE Quot(TableDistance(t), R(t.duration))

\* the table value of calories for mean speed ms (defined when the duration
\* and, for walking, the height are not zero)
TableCalories(t, ms) ==
    CASE t.cls = "Running" ->
           Mul(Quot(Mul(Add(Mul(R(18), ms), Dec(179, 2)), R(t.weight)), R(1000)),
               Mul(R(t.duration), R(60)))
      [] t.cls = "SportsWalking" ->
           Mul(Add(Mul(Dec(35, 3), R(t.weight)),
                   Mul(Mul(Quot(Mul(Mul(ms, Dec(278, 3)), Mul(ms, Dec(278, 3))),
                                Quot(R(t.height), R(100))),
                           Dec(29, 3)),
                       R(t.weight))),
               Mul(R(t.duration), R(60)))
      [] t.cls = "Swimming" ->
           Mul(Mul(Mul(Add(ms, Dec(11, 1)), R(2)), R(t.weight)), R(t.duration))

\* the table formula of t has a value: no division by zero in it
TableDefined(t) ==
    /\ t.duration # 0
    /\ t.cls = "SportsWalking" => t.height # 0

\* C3: for a record of nonzero duration get_spent_calories returns the table
\* formula of its variant, taken at the variant's own get_mean_speed; it
\* raises only where the table formula itself has no value (a walking height
\* of 0), and never returns the base value duration * weight.
C3_Calories ==
    (ret.op = "get_spent_calories" /\ training.duration # 0) =>
        /\ ret.ok <=> TableDefined(training)
        /\ ret.ok => /\ ret.val = TableCalories(training, get_mean_speed(training).val)
                     /\ ret.val # Mul(R(training.duration), R(training.weight))

\* C3 witness: get_spent_calories was called on a two-hour swim of 40 laps of
\* 25 m at 80 kg and returned (0.5 + 1.1) * 2 * 80 * 2 = 512
C3_Witness ==
    /\ ret.op = "get_spent_calories"
    /\ training.cls = "Swimming"
    /\ training.duration = 2
    /\ training.length_pool = 25
    /\ training.count_pool = 40
    /\ ret.val = R(512)

\* C4: for a record of nonzero duration, get_mean_speed of Running and
\* SportsWalking is get_distance() / duration; that of Swimming is
\* length_pool * count_pool / 1000 / duration, and neither it nor the
\* calories change with the action count, while the distance does.
C4_MeanSpeed ==
    (ret.op = "get_mean_speed" /\ training.duration # 0) =>
        /\ ret.ok
        /\ ret.val = TableMeanSpeed(training)
        /\ training.cls # "Swimming" =>
               ret.val = Quot(get_distance(training).val, R(training.duration))
        /\ training.cls = "Swimming" =>
               \A a \in {0, 720, 1000} :
                  LET u == [training EXCEPT !.action = a]
                  IN  /\ get_mean_speed(u).val = ret.val
                      /\ get_spent_calories(u).val = get_spent_calories(training).val
                      /\ a # training.action =>
                             get_distance(u).val # get_distance(training).val

\* C4 witness: get_mean_speed was called on the swim of the script (720
\* strokes, 1 h, 40 laps of 25 m) and returned 1, while the distance is
\* 0.9936: distance differs from mean speed * duration
C4_Witness ==
    /\ ret.op = "get_mean_speed"
    /\ training = Swimming_init(720, 1, 80, 25, 40)
    /\ ret.val = R(1)
    /\ get_distance(training).val # Mul(ret.val, R(training.duration))

\* the instance read_package("RUN", [15000, 1, 75]) returns
ReferenceRun == Training_init("Running", 15000, 1, 75)

\* the reference run's distance and mean speed are both 9.75
ReferenceRunSpeed ==
    /\ (training = ReferenceRun /\ ret.op = "get_distance") => ret.val = Dec(975, 2)
    /\ (training = ReferenceRun /\ ret.op = "get_mean_speed") => ret.val = Dec(975, 2)

\* |x - y| <= e
Within(x, y, e) ==
    LET diff == Add(x, <<-y[1], y[2]>>)
        gap  == Add(e, <<-Abs(diff[1]), diff[2]>>)
    IN  gap[1] >= 0

\* C6 (as stated): for Running(15000, 1, 75) distance = 9.75, mean speed =
\* 9.75 and calories = ((18 * 9.75 + 1.79) * 75 / 1000) * 60, approximately
\* 798.53 (to the two decimals given).
C6_Original ==
    /\ ReferenceRunSpeed
    /\ (training = ReferenceRun /\ ret.op = "get_spent_calories") =>
           Within(ret.val, Dec(79853, 2), Dec(5, 3))

\* C6 (amended): for Running(15000, 1, 75) distance = 9.75, mean speed = 9.75
\* and calories = ((18 * 9.75 + 1.79) * 75 / 1000) * 60, which is 797.805.
C6_ReferenceRun ==
    /\ ReferenceRunSpeed
    /\ (training = ReferenceRun /\ ret.op = "get_spent_calories") =>
           /\ ret.val = Mul(Quot(Mul(Add(Mul(R(18), Dec(975, 2)), Dec(179, 2)), R(75)),
                                 R(1000)),
                            R(60))
           /\ ret.val = Dec(797805, 3)

\* C6 witness: the script read ("RUN", [15000, 1, 75]) and show_training_info
\* reported distance 9.75, speed 9.75 and 797.805 kcal for it
C6_Witness ==
    /\ name = "__main__"
    /\ pc = "print"
    /\ packages[idx] = <<"RUN", <<15000, 1, 75>>>>
    /\ training = ReferenceRun
    /\ info.distance = Dec(975, 2)
    /\ info.speed = Dec(975, 2)
    /\ info.calories = Dec(797805, 3)

\* the decimal text of a natural number
RECURSIVE NatText(_)
NatText(n) == IF n < 10 THEN <<48 + n>> ELSE Append(NatText(n \div 10), 48 + (n % 10))

\* the fixed-point text of th thousandths: integer part, ".", three decimals
Decimal3(th) ==
    NatText(th \div 1000) \o <<46>>
    \o <<48 + ((th % 1000) \div 100), 48 + ((th % 100) \div 10), 48 + (th % 10)>>

\* the texts that show x >= 0 in fixed point with exactly three decimals: the
\* thousandths nearest to x
Shown3(x) ==
    LET m  == Mul(x, R(1000))
        lo == m[1] \div m[2]
    IN  {Decimal3(th) : th \in {k \in {lo, lo + 1} : 2 * Abs(m[1] - k * m[2]) <= m[2]}}

\* the display name of a variant
DisplayName(cls) ==
    CASE cls = "Running"       -> <<82, 117, 110, 110, 105, 110, 103>>
      [] cls = "SportsWalking" -> <<83, 112, 111, 114, 116, 115, 87, 97, 108, 107, 105, 110, 103>>
      [] cls = "Swimming"      -> <<83, 119, 105, 109, 109, 105, 110, 103>>

\* the fixed texts of the template of the specification, in order:
\* "Training type: ", "; Duration: ", " h.; Distance: ", " km; Avg. speed: ",
\* " km/h; Calories burned: ", "."
TemplateOfSpec ==
    << <<84, 114, 97, 105, 110, 105, 110, 103, 32, 116, 121, 112, 101, 58, 32>>,
       <<59, 32, 68, 117, 114, 97, 116, 105, 111, 110, 58, 32>>,
       <<32, 104, 46, 59, 32, 68, 105, 115, 116, 97, 110, 99, 101, 58, 32>>,
       <<32, 107, 109, 59, 32, 65, 118, 103, 46, 32, 115, 112, 101, 101, 100, 58,
        32>>,
       <<32, 107, 109, 47, 104, 59, 32, 67, 97, 108, 111, 114, 105, 101, 115, 32, 98,
        117, 114, 110, 101, 100, 58, 32>>,
       <<46>> >>

\* the fixed texts of the template of get_message, in order: the same six
\* pieces in Russian ("Тип тренировки: ", "; Длительность: ", " ч.; Дистанция: ",
\* " км; Ср. скорость: ", " км/ч; Потрачено ккал: ", ".")
TemplateOfCode ==
    << <<1058, 1080, 1087, 32, 1090, 1088, 1077, 1085, 1080, 1088, 1086, 1074, 1082,
        1080, 58, 32>>,
       <<59, 32, 1044, 1083, 1080, 1090, 1077, 1083, 1100, 1085, 1086, 1089, 1090,
        1100, 58, 32>>,
       <<32, 1095, 46, 59, 32, 1044, 1080, 1089, 1090, 1072, 1085, 1094, 1080, 1103,
        58, 32>>,
       <<32, 1082, 1084, 59, 32, 1057, 1088, 46, 32, 1089, 1082, 1086, 1088, 1086,
        1089, 1090, 1100, 58, 32>>,
       <<32, 1082, 1084, 47, 1095, 59, 32, 1055, 1086, 1090, 1088, 1072, 1095, 1077,
        1085, 1086, 32, 1082, 1082, 1072, 1083, 58, 32>>,
       <<46>> >>

\* the lines that render record t with the fixed texts tp: type, duration,
\* distance, mean speed and calories in that order, three decimals each
Lines(tp, t) ==
    { tp[1] \o DisplayName(t.cls) \o tp[2] \o du \o tp[3] \o di \o tp[4] \o sp
      \o tp[5] \o ca \o tp[6] :
        du \in Shown3(R(t.duration)), di \in Shown3(get_distance(t).val),
        sp \in Shown3(get_mean_speed(t).val),
        ca \in Shown3(get_spent_calories(t).val) }

\* C2 (as stated): the line of show_training_info().get_message() is exactly
\* "Training type: {type}; Duration: {duration} h.; Distance: {distance} km;
\* Avg. speed: {speed} km/h; Calories burned: {calories}." with the variant's
\* display name and the four numbers in fixed point with three decimals.
C2_Original ==
    ret.op = "get_message" => ret.val \in Lines(TemplateOfSpec, training)

\* C2 (amended): the line has that structure, order and number format, but
\* its fixed texts are the Russian ones of the source: "Тип тренировки:
\* {type}; Длительность: {duration} ч.; Дистанция: {distance} км; Ср.
\* скорость: {speed} км/ч; Потрачено ккал: {calories}."
C2_Message ==
    ret.op = "get_message" => ret.val \in Lines(TemplateOfCode, training)

\* C2 witness: get_message rendered the reference run as "Тип тренировки:
\* Running; Длительность: 1.000 ч.; Дистанция: 9.750 км; Ср. скорость: 9.750
\* км/ч; Потрачено ккал: 797.805.", the line the program prints for it
C2_Witness ==
    /\ ret.op = "get_message"
    /\ training = ReferenceRun
    /\ ret.val =
        <<1058, 1080, 1087, 32, 1090, 1088, 1077, 1085, 1080, 1088, 1086, 1074, 1082,
        1080, 58, 32, 82, 117, 110, 110, 105, 110, 103, 59, 32, 1044, 1083, 1080,
        1090, 1077, 1083, 1100, 1085, 1086, 1089, 1090, 1100, 58, 32, 49, 46, 48, 48,
        48, 32, 1095, 46, 59, 32, 1044, 1080, 1089, 1090, 1072, 1085, 1094, 1080,
        1103, 58, 32, 57, 46, 55, 53, 48, 32, 1082, 1084, 59, 32, 1057, 1088, 46, 32,
        1089, 1082, 1086, 1088, 1086, 1089, 1090, 1100, 58, 32, 57, 46, 55, 53, 48,
        32, 1082, 1084, 47, 1095, 59, 32, 1055, 1086, 1090, 1088, 1072, 1095, 1077,
        1085, 1086, 32, 1082, 1082, 1072, 1083, 58, 32, 55, 57, 55, 46, 56, 48, 53,
        46>>

\* a call of a Training method on the current instance returned or raised
\* what its first call did
SameAsFirst ==
    ret.op \in CallNames =>
        /\ first[ret.op].seen
        /\ first[ret.op].outcome = Outcome(ret)

\* a step that is a call of a method of the instance or of its InfoMessage
MethodStep == ret'.op # "read_package"

\* C7: calls of get_distance, get_mean_speed, get_spent_calories,
\* duration_in_min and show_training_info leave every field of the record as
\* bound at construction, each returns what its first call returned, and an
\* InfoMessage once returned is not changed by later calls.
C7_Pure ==
    /\ []SameAsFirst
    /\ [][MethodStep => /\ training' = training
                        /\ info # NoInfo => info' = info]_vars

\* C7 witness: on a two-hour run all four statistics methods and
\* show_training_info have been called at least twice each, and the last
\* call, a repeated get_spent_calories, returned the first call's value
C7_Witness ==
    /\ training = Training_init("Running", 15000, 2, 75)
    /\ \A m \in CallNames : first[m].seen /\ first[m].again
    /\ info # NoInfo
    /\ ret.op = "get_spent_calories"
    /\ ret.ok

\* the script is at package k: the pair it is working on
ScriptRunning == name = "__main__" /\ pc \in {"loop", "main", "print", "crashed"}

\* a package the script gets through: a known code, readings of its arity, a
\* nonzero duration and, for walking, a nonzero height
GoodPackage(p) ==
    /\ p[1] \in KnownCodes
    /\ Len(p[2]) = Arity(p[1])
    /\ p[2][2] # 0
    /\ p[1] = "WLK" => p[2][4] # 0

\* a pair with a known code, readings of its arity and a nonzero duration
KnownNonzero(p) ==
    /\ p[1] \in KnownCodes
    /\ Len(p[2]) = Arity(p[1])
    /\ p[2][2] # 0

\* the lines that describe package p
LinesOf(p) == Lines(TemplateOfCode, read_package(p[1], p[2]).val)

\* the script works on one pair at a time, in input order: the lines printed
\* so far are those of the pairs before the current one, line k describing
\* pair k, and each step of a pair follows the previous step of that pair
InOrder ==
    /\ ScriptRunning =>
          /\ idx \in 1 .. Len(packages) + 1
          /\ Len(out) = idx - 1
          /\ pc \in {"main", "print"} =>
                 /\ idx <= Len(packages)
                 /\ training = read_package(packages[idx][1], packages[idx][2]).val
          /\ pc = "print" => info = show_training_info(training).val
    /\ name = "__main__" =>
          /\ Len(out) <= Len(packages)
          /\ \A k \in 1 .. Len(out) : GoodPackage(packages[k]) /\ out[k] \in LinesOf(packages[k])

\* the script has ended: the loop is exhausted or an exception escaped
Ended == name = "__main__" /\ pc \in {"exit", "crashed"}

ZeroDuration == training # NoTraining /\ training.duration = 0

\* the workout code is all that read_package checks: a zero duration is
\* accepted
ZeroAccepted == (ReadKnown /\ ret.args[2][2] = 0) => ret.ok /\ training.duration = 0

\* get_mean_speed and show_training_info on a zero-duration record raise the
\* division fault, and no InfoMessage exists for the record
ZeroFaults ==
    (ZeroDuration /\ ret.op \in {"get_mean_speed", "show_training_info"}) =>
        /\ ~ret.ok
        /\ ret.exc = "ZeroDivisionError"
        /\ info = NoInfo

\* in the script the fault ends the run at the pair: its line is not printed
ZeroStopsScript ==
    (name = "__main__" /\ ZeroDuration /\ ret.op = "show_training_info") =>
        /\ pc = "crashed"
        /\ Len(out) = idx - 1

\* C9: read_package accepts a zero duration (the code check is its only
\* validation); get_mean_speed and show_training_info then raise a division
\* fault for every variant and produce no InfoMessage; the script prints no
\* line for that pair and takes no further step, so none for a later pair.
C9_ZeroDuration ==
    /\ [](ZeroAccepted /\ ZeroFaults /\ ZeroStopsScript)
    /\ [][pc # "crashed"]_vars

\* C9 witness: the script read a zero-duration swim as its first pair,
\* show_training_info raised ZeroDivisionError, nothing is printed and two
\* more pairs are left unprocessed
C9_Witness ==
    /\ name = "__main__"
    /\ pc = "crashed"
    /\ training = Swimming_init(720, 0, 80, 25, 40)
    /\ ret.op = "show_training_info"
    /\ ret.exc = "ZeroDivisionError"
    /\ idx = 1
    /\ Len(packages) = 3
    /\ out = <<>>

\* show_training_info returned: the last call, with an InfoMessage
ShowReturned == ret.op = "show_training_info" /\ ret.ok

\* C10 (as stated): during one show_training_info, get_distance,
\* get_mean_speed and get_spent_calories are each evaluated exactly once,
\* nested evaluations included.
C10_Original ==
    ShowReturned =>
        /\ calls["get_distance"] = 1
        /\ calls["get_mean_speed"] = 1
        /\ calls["get_spent_calories"] = 1

\* C10 (amended): during one show_training_info that returns,
\* get_spent_calories is evaluated once, get_mean_speed twice (once by
\* show_training_info, once inside get_spent_calories), and get_distance
\* three times for Running and SportsWalking (once more inside each
\* get_mean_speed) and once for Swimming.
C10_Evaluations ==
    ShowReturned =>
        /\ calls["get_spent_calories"] = 1
        /\ calls["get_mean_speed"] = 2
        /\ calls["get_distance"] = IF training.cls = "Swimming" THEN 1 ELSE 3

\* C10 witness: show_training_info returned for the reference run, after
\* three evaluations of get_distance and two of get_mean_speed
C10_Witness ==
    /\ ShowReturned
    /\ training = ReferenceRun
    /\ calls["get_distance"] = 3
    /\ calls["get_mean_speed"] = 2
    /\ calls["get_spent_calories"] = 1

====
